---- MODULE Spec2Model ----
(***************************************************************************)
(* Authentication / session core of the licensing marketplace backend:    *)
(* services/auth.py (AuthService), api/v1/endpoints/auth.py (the request   *)
(* handlers), api/v1/dependencies/auth.py (bearer authentication) and      *)
(* models/user.py (User, RefreshToken).                                    *)
(*                                                                         *)
(* The clock `now` is datetime.utcnow() in minutes.  In Spec, SpecLockout  *)
(* and SpecHasher every handler runs as one step at one instant and time   *)
(* passes between requests (Tick).  SpecRace runs login as the steps its   *)
(* awaits separate, each request on the database session of its own.       *)
(***************************************************************************)
EXTENDS Integers, Sequences, FiniteSets, TLC

VARIABLES now, ticks, users, refresh_tokens, last, sessions

vars == <<now, ticks, users, refresh_tokens, last, sessions>>

(* ------------------------------ bounds -------------------------------- *)
\* clock advances per behaviour
MaxTicks == 1
\* Spec: rows the refresh_tokens table may hold, and the highest failure counter
MaxTokens == 2
MaxFailedFew == 1
\* SpecLockout: the same two bounds, for the behaviours that lock an account
MaxTokensFew == 1
MaxFailed == 6
\* SpecHasher: the longest secret, in bytes
MaxSecretBytes == 74
\* SpecRace: login requests per behaviour, and how many run at the same time
MaxRequests == 5
MaxInflight == 2
MaxChanges == 1

(* ------------------------- program constants -------------------------- *)
\* services/auth.py:404  `if user.failed_login_attempts >= 5`
LOCK_THRESHOLD == 5
\* services/auth.py:405  timedelta(minutes=30)
LOCKOUT_MINUTES == 30
\* core/config.py:31
JWT_ACCESS_TOKEN_EXPIRE_MINUTES == 30
\* core/config.py:32 and endpoints/auth.py:195, timedelta(days=7), in minutes
JWT_REFRESH_TOKEN_EXPIRE_DAYS == 7
REFRESH_MINUTES == JWT_REFRESH_TOKEN_EXPIRE_DAYS * 24 * 60
\* services/auth.py:49  password_bytes[:72]
BCRYPT_MAX_BYTES == 72

(* ------------------------------ inputs -------------------------------- *)
\* amounts of time that pass between two requests (minutes)
TickSteps == {LOCKOUT_MINUTES, REFRESH_MINUTES}
\* primary keys the users table hands out, in order
UserIds == {1, 2}
EmailOf(id) == IF id = 1 THEN "a@x.io" ELSE "b@x.io"
AllEmails == {EmailOf(id) : id \in UserIds}
\* passwords as UTF-8 byte strings (both pass the schema's strength rules)
PW_A == <<80, 119, 49, 33>>
PW_B == <<81, 120, 50, 64>>
Passwords == {PW_A, PW_B}
\* base32 TOTP secrets pyotp.random_base32() may return
Secrets == {"S1", "S2"}

\* SQL NULL / Python None, and a present value
Null == <<>>
Some(v) == <<v>>

SecurityType == {"PASSWORD", "GOOGLE_OAUTH", "AMAZON_OAUTH", "SSO"}
UserStatus == {"ACTIVE", "INACTIVE", "SUSPENDED", "PENDING_VERIFICATION"}

(* --------------------------- Secret Hasher ---------------------------- *)
Min(a, b) == IF a < b THEN a ELSE b

truncate_password(password) ==
    SubSeq(password, 1, Min(Len(password), BCRYPT_MAX_BYTES))

hash_password_untruncated(password) == [bcrypt |-> password]

\* the bcrypt digest is identified with the bytes it was computed from
hash_password(password) == [bcrypt |-> truncate_password(password)]

verify_password(plain_password, hashed_password) ==
    hashed_password.bcrypt = truncate_password(plain_password)

(* ----------------------------- TOTP Engine ---------------------------- *)
\* the 6-digit code an authenticator shows for `secret` at minute `at`
TOTP(secret, at) == [secret |-> secret, at |-> at]

\* pyotp verify(valid_window=1): +-30 s, i.e. the same minute on this clock
verify_totp(secret, token, tm) == token.secret = secret /\ token.at = tm

(* ---------------------------- Token Service --------------------------- *)
\* a JWT signed with settings.JWT_SECRET_KEY; jti is 0 for access tokens
create_access_token(sub, tm) ==
    [sub |-> sub, type |-> "access", exp |-> tm + JWT_ACCESS_TOKEN_EXPIRE_MINUTES,
     jti |-> 0, sig |-> "ok"]

create_refresh_token(sub, jti, tm) ==
    [sub |-> sub, type |-> "refresh", exp |-> tm + REFRESH_MINUTES,
     jti |-> jti, sig |-> "ok"]

\* a token string that was not signed with the server's key
ForgedToken == [sub |-> 0, type |-> "access", exp |-> 0, jti |-> 0, sig |-> "bad"]

\* a token signed with the server's key whose payload has no sub claim
NoSubjectToken ==
    [type |-> "access", exp |-> 4 * REFRESH_MINUTES, jti |-> 0, sig |-> "ok"]

\* jwt.decode: Null stands for the ValueError decode_token raises.  The
\* signature and the exp claim are what is validated here; the subject
\* claim is taken as the library hands it back (login writes user.id, an
\* integer, and the callers convert with int()).
decode_token(token, tm) ==
    IF token.sig = "ok" /\ token.exp >= tm THEN Some(token) ELSE Null

save_refresh_token_replacing(tbl, user_id, token, jti, expires_at) ==
    Append([i \in DOMAIN tbl |->
              IF tbl[i].user_id = user_id THEN [tbl[i] EXCEPT !.revoked = TRUE] ELSE tbl[i]],
           [user_id |-> user_id, token |-> token, jti |-> jti,
            expires_at |-> expires_at, revoked |-> FALSE, revoked_at |-> Null])

save_refresh_token(tbl, user_id, token, jti, expires_at) ==
    Append(tbl, [user_id |-> user_id, token |-> token, jti |-> jti,
                 expires_at |-> expires_at, revoked |-> FALSE, revoked_at |-> Null])

is_valid(row, tm) == ~row.revoked /\ row.expires_at > tm

\* the rows a query selected: none, the one row, or "multiple" where
\* scalar_one_or_none raises MultipleResultsFound
scalar_one_or_none(tbl, hits) ==
    IF hits = {} THEN Null
    ELSE IF Cardinality(hits) = 1 THEN Some(tbl[CHOOSE i \in hits : TRUE])
    ELSE Some("multiple")

verify_refresh_token_until_expiry(tbl, token, tm) ==
    scalar_one_or_none(tbl, {i \in DOMAIN tbl : /\ tbl[i].token = token
                                                /\ tbl[i].revoked = FALSE
                                                /\ tbl[i].expires_at >= tm})

verify_refresh_token_revoked_too(tbl, token, tm) ==
    scalar_one_or_none(tbl, {i \in DOMAIN tbl : /\ tbl[i].token = token
                                                /\ tbl[i].expires_at > tm})

verify_refresh_token(tbl, token, tm) ==
    LET hits == {i \in DOMAIN tbl : /\ tbl[i].token = token
                                    /\ tbl[i].revoked = FALSE
                                    /\ tbl[i].expires_at > tm}
    IN  scalar_one_or_none(tbl, hits)

revoke_refresh_token_of_owner(tbl, token, tm) ==
    LET hits == {i \in DOMAIN tbl : tbl[i].token = token}
    IN  IF hits = {} THEN [tbl |-> tbl, ok |-> FALSE]
        ELSE LET owner == tbl[CHOOSE j \in hits : TRUE].user_id
             IN  [tbl |-> [i \in DOMAIN tbl |->
                             IF tbl[i].user_id = owner
                             THEN [tbl[i] EXCEPT !.revoked = TRUE, !.revoked_at = Some(tm)]
                             ELSE tbl[i]],
                  ok  |-> TRUE]

revoke_refresh_token_found_always(tbl, token, tm) ==
    LET hits == {i \in DOMAIN tbl : tbl[i].token = token}
    IN  [tbl |-> [i \in DOMAIN tbl |->
                    IF i \in hits
                    THEN [tbl[i] EXCEPT !.revoked = TRUE, !.revoked_at = Some(tm)]
                    ELSE tbl[i]],
         ok  |-> TRUE]

revoke_refresh_token(tbl, token, tm) ==
    LET hits == {i \in DOMAIN tbl : tbl[i].token = token}
    IN  IF hits = {} THEN [tbl |-> tbl, ok |-> FALSE]
        ELSE LET i == CHOOSE j \in hits : TRUE
             IN  [tbl |-> [tbl EXCEPT ![i].revoked = TRUE, ![i].revoked_at = Some(tm)],
                  ok  |-> TRUE]

revoke_all_user_tokens_unexpired(tbl, user_id, tm) ==
    LET tokens == {i \in DOMAIN tbl : /\ tbl[i].user_id = user_id
                                      /\ tbl[i].revoked = FALSE
                                      /\ tbl[i].expires_at > tm}
    IN  [tbl   |-> [i \in DOMAIN tbl |->
                      IF i \in tokens
                      THEN [tbl[i] EXCEPT !.revoked = TRUE, !.revoked_at = Some(tm)]
                      ELSE tbl[i]],
         count |-> Cardinality(tokens)]

revoke_all_user_tokens(tbl, user_id, tm) ==
    LET tokens == {i \in DOMAIN tbl : tbl[i].user_id = user_id /\ tbl[i].revoked = FALSE}
    IN  [tbl   |-> [i \in DOMAIN tbl |->
                      IF i \in tokens
                      THEN [tbl[i] EXCEPT !.revoked = TRUE, !.revoked_at = Some(tm)]
                      ELSE tbl[i]],
         count |-> Cardinality(tokens)]

(* ---------------------------- Account Guard --------------------------- *)
is_locked_inclusive(user, tm) == user.locked_until # Null /\ user.locked_until[1] >= tm

is_locked(user, tm) == user.locked_until # Null /\ user.locked_until[1] > tm

can_login_ignoring_status(user, tm) == user.is_active /\ ~is_locked(user, tm)

can_login(user, tm) ==
    user.is_active /\ ~is_locked(user, tm) /\ user.status = "ACTIVE"

(* ----------------------- Authentication service ----------------------- *)
\* Results of authenticate_user: the users table after the call and the
\* returned user id (Null for `return None`).

password_rejected_restarting(us, id, tm) ==
    LET expired == us[id].locked_until # Null /\ us[id].locked_until[1] <= tm
        n == IF expired THEN 1 ELSE us[id].failed_login_attempts + 1
    IN  [users |-> [us EXCEPT ![id].failed_login_attempts = n,
                              ![id].locked_until =
                                 IF n >= LOCK_THRESHOLD
                                 THEN Some(tm + LOCKOUT_MINUTES) ELSE @],
         user  |-> Null]

\* a wrong password: count it, lock at the threshold, commit, return None
password_rejected(us, id, tm) ==
    LET n == us[id].failed_login_attempts + 1
    IN  [users |-> [us EXCEPT ![id].failed_login_attempts = n,
                              ![id].locked_until =
                                 IF n >= LOCK_THRESHOLD
                                 THEN Some(tm + LOCKOUT_MINUTES) ELSE @],
         user  |-> Null]

mfa_rejected_counts(us, id, tm) == password_rejected(us, id, tm)

\* a missing or wrong MFA code, or no stored secret: return None, nothing written
mfa_rejected(us, id, tm) == [users |-> us, user |-> Null]

authenticated_keeps_counter(us, id) == [users |-> us, user |-> Some(id)]

\* full success: reset the counter, commit, return the user
authenticated(us, id) ==
    [users |-> [us EXCEPT ![id].failed_login_attempts = 0], user |-> Some(id)]

authenticate_user_password_always(us, email, password, mfa_token, tm) ==
    LET ids == {i \in DOMAIN us : us[i].email = email}
        no  == [users |-> us, user |-> Null]
    IN  IF ids = {} THEN no
        ELSE LET id == CHOOSE i \in ids : TRUE
                 user == us[id]
             IN
             IF ~can_login(user, tm) THEN no
             ELSE IF user.password_hash = Null THEN no
             ELSE IF ~verify_password(password, user.password_hash[1])
             THEN password_rejected(us, id, tm)
             ELSE IF /\ user.mfa_enabled
                     /\ \/ mfa_token = Null
                        \/ user.mfa_secret = Null
                        \/ ~verify_totp(user.mfa_secret[1], mfa_token[1], tm)
             THEN mfa_rejected(us, id, tm)
             ELSE authenticated(us, id)

authenticate_user(us, email, password, mfa_token, tm) ==
    LET ids == {i \in DOMAIN us : us[i].email = email}
        no  == [users |-> us, user |-> Null]
    IN  IF ids = {} THEN no
        ELSE LET id == CHOOSE i \in ids : TRUE
                 user == us[id]
             IN
             IF ~can_login(user, tm) THEN no
             ELSE IF user.security_type = "PASSWORD" /\ user.password_hash = Null THEN no
             ELSE IF /\ user.security_type = "PASSWORD"
                     /\ ~verify_password(password, user.password_hash[1])
             THEN password_rejected(us, id, tm)
             ELSE IF /\ user.mfa_enabled
                     /\ \/ mfa_token = Null
                        \/ user.mfa_secret = Null
                        \/ ~verify_totp(user.mfa_secret[1], mfa_token[1], tm)
             THEN mfa_rejected(us, id, tm)
             ELSE authenticated(us, id)

(* ------------------------ bearer authentication ----------------------- *)
\* result: HTTP status, detail and the user id (0 when the request is refused);
\* status 500 is an exception that no handler catches: int(None) raises
\* TypeError and the dependency catches ValueError only
get_current_user(us, token, tm) ==
    LET payload == decode_token(token, tm)
    IN  IF payload = Null
        THEN [status |-> 401, detail |-> "Invalid token", user |-> 0]
        ELSE IF payload[1].type # "access"
        THEN [status |-> 401, detail |-> "Invalid token type", user |-> 0]
        ELSE IF "sub" \notin DOMAIN payload[1]
        THEN [status |-> 500, detail |-> "TypeError", user |-> 0]
        ELSE IF payload[1].sub \notin DOMAIN us
        THEN [status |-> 401, detail |-> "User not found", user |-> 0]
        ELSE IF ~us[payload[1].sub].is_active
        THEN [status |-> 403, detail |-> "Inactive user", user |-> 0]
        ELSE [status |-> 200, detail |-> "", user |-> payload[1].sub]

get_current_active_user(us, token, tm) == get_current_user(us, token, tm)

(* ------------------------------- state -------------------------------- *)
NewUser(email, security_type, password_hash) ==
    [email |-> email, security_type |-> security_type, password_hash |-> password_hash,
     mfa_enabled |-> FALSE, mfa_secret |-> Null,
     failed_login_attempts |-> 0, locked_until |-> Null,
     password_changed_at |-> Null, status |-> "ACTIVE", is_active |-> TRUE]

\* the response to the latest request, with the request it answers, what the
\* handler read of the account before it wrote (pre) and what it returned (out)
Resp(op, status, detail, req, pre, out) ==
    [op |-> op, status |-> status, detail |-> detail, req |-> req, pre |-> pre, out |-> out]

Nothing == [none |-> TRUE]

\* The account provisioned out of band that the store holds when the service
\* starts (no handler ever writes status or is_active), and its session.
SeedUser(status, is_active) ==
    [NewUser(EmailOf(1), "PASSWORD", Some(hash_password(PW_A)))
        EXCEPT !.status = status, !.is_active = is_active]

SeedRow == [user_id |-> 1, token |-> create_refresh_token(1, 1, 0), jti |-> 1,
            expires_at |-> REFRESH_MINUTES, revoked |-> FALSE, revoked_at |-> Null]

SeedStores ==
    { [users |-> (1 :> SeedUser("ACTIVE", TRUE)),    refresh_tokens |-> <<>>],
      [users |-> (1 :> SeedUser("SUSPENDED", TRUE)), refresh_tokens |-> <<SeedRow>>],
      [users |-> (1 :> SeedUser("ACTIVE", FALSE)),   refresh_tokens |-> <<SeedRow>>] }

\* The access token login returned together with the refresh token of `row`
\* (both are minted at the same instant).
AccessOf(row) == create_access_token(row.user_id, row.expires_at - REFRESH_MINUTES)

\* refresh-token strings a client can submit: one of a row, or a forged one
RefreshInputs == {refresh_tokens[i].token : i \in DOMAIN refresh_tokens} \cup {ForgedToken}

\* access tokens a client holds: one a login returned, or the one the latest
\* refresh returned; as bearer credential a client can also present a refresh
\* token or a forged token
AccessTokens ==
    {AccessOf(refresh_tokens[i]) : i \in DOMAIN refresh_tokens}
      \cup (IF last.op = "refresh" /\ last.status = 200 THEN {last.out.access_token} ELSE {})

Bearers == AccessTokens \cup RefreshInputs \cup {NoSubjectToken}

Init ==
    /\ now = 0
    /\ ticks = 0
    /\ \E s \in SeedStores : users = s.users /\ refresh_tokens = s.refresh_tokens
    /\ last = Resp("start", 0, "", Nothing, Null, Nothing)
    /\ sessions = <<>>

(* ------------------------------ handlers ------------------------------ *)
Tick(d) ==
    /\ ticks < MaxTicks
    /\ now' = now + d
    /\ ticks' = ticks + 1
    /\ last' = Resp("tick", 0, "", Nothing, Null, Nothing)
    /\ UNCHANGED <<users, refresh_tokens, sessions>>

signup(email, security_type, password) ==
    LET req == [email |-> email, security_type |-> security_type, password |-> password]
    IN
    /\ UNCHANGED <<sessions, now, ticks, refresh_tokens>>
    /\ IF \E i \in DOMAIN users : users[i].email = email
       THEN /\ last' = Resp("signup", 400, "Email already registered", req, Null, Nothing)
            /\ UNCHANGED users
       ELSE LET id == Cardinality(DOMAIN users) + 1
                ph == IF security_type = "PASSWORD" /\ password # Null
                      THEN Some(hash_password(password[1])) ELSE Null
            IN  /\ id \in UserIds
                /\ users' = users @@ (id :> NewUser(email, security_type, ph))
                /\ last' = Resp("signup", 201, "", req, Null, [user |-> id])

login(email, password, mfa_token) ==
    LET req == [email |-> email, password |-> password, mfa_token |-> mfa_token]
        ids == {i \in DOMAIN users : users[i].email = email}
        pre == IF ids = {} THEN Null ELSE Some(users[CHOOSE i \in ids : TRUE])
        r   == authenticate_user(users, email, password, mfa_token, now)
    IN
    /\ UNCHANGED <<sessions, now, ticks>>
    /\ IF r.user = Null
       THEN /\ users' = r.users
            /\ last' = Resp("login", 401, "Incorrect email or password", req, pre, Nothing)
            /\ UNCHANGED refresh_tokens
       ELSE LET id      == r.user[1]
                access  == create_access_token(id, now)
                jti     == Len(refresh_tokens) + 1
                refresh == create_refresh_token(id, jti, now)
            IN  /\ users' = r.users
                /\ refresh_tokens' = save_refresh_token(refresh_tokens, id, refresh, jti,
                                                        now + REFRESH_MINUTES)
                /\ last' = Resp("login", 200, "", req, pre,
                                [access_token |-> access, refresh_token |-> refresh])

refresh_access_token_rotating(refresh_token) ==
    LET req == [refresh_token |-> refresh_token]
        token_obj == verify_refresh_token(refresh_tokens, refresh_token, now)
        payload == decode_token(refresh_token, now)
        fail(detail) == /\ last' = Resp("refresh", 401, detail, req, Null, Nothing)
                        /\ UNCHANGED refresh_tokens
    IN
    /\ UNCHANGED <<sessions, now, ticks, users>>
    /\ IF token_obj = Null THEN fail("Invalid or expired refresh token")
       ELSE IF payload = Null THEN fail("Invalid token")
       ELSE IF payload[1].sub \notin DOMAIN users \/ ~users[payload[1].sub].is_active
       THEN fail("User not found or inactive")
       ELSE LET access == create_access_token(payload[1].sub, now)
            IN  /\ refresh_tokens' = revoke_refresh_token(refresh_tokens, refresh_token,
                                                          now).tbl
                /\ last' = Resp("refresh", 200, "", req, Null,
                                [access_token |-> access, refresh_token |-> refresh_token])

refresh_access_token_guarded(refresh_token) ==
    LET req == [refresh_token |-> refresh_token]
        token_obj == verify_refresh_token(refresh_tokens, refresh_token, now)
        payload == decode_token(refresh_token, now)
        fail(detail) == last' = Resp("refresh", 401, detail, req, Null, Nothing)
    IN
    /\ UNCHANGED <<sessions, now, ticks, users, refresh_tokens>>
    /\ IF token_obj = Null THEN fail("Invalid or expired refresh token")
       ELSE IF payload = Null THEN fail("Invalid token")
       ELSE IF payload[1].sub \notin DOMAIN users \/ ~can_login(users[payload[1].sub], now)
       THEN fail("User not found or inactive")
       ELSE LET access == create_access_token(payload[1].sub, now)
            IN  last' = Resp("refresh", 200, "", req, Null,
                             [access_token |-> access, refresh_token |-> refresh_token])

refresh_access_token(refresh_token) ==
    LET req == [refresh_token |-> refresh_token]
        token_obj == verify_refresh_token(refresh_tokens, refresh_token, now)
        payload == decode_token(refresh_token, now)
        fail(detail) == last' = Resp("refresh", 401, detail, req, Null, Nothing)
    IN
    /\ UNCHANGED <<sessions, now, ticks, users, refresh_tokens>>
    /\ IF token_obj = Null THEN fail("Invalid or expired refresh token")
       ELSE IF payload = Null THEN fail("Invalid token")
       ELSE IF payload[1].sub \notin DOMAIN users \/ ~users[payload[1].sub].is_active
       THEN fail("User not found or inactive")
       ELSE LET access == create_access_token(payload[1].sub, now)
            IN  last' = Resp("refresh", 200, "", req, Null,
                             [access_token |-> access, refresh_token |-> refresh_token])

\* a request the bearer dependency refuses never reaches the handler body
Refused(op, bearer, cur) ==
    last' = Resp(op, cur.status, cur.detail, [bearer |-> bearer], Null, Nothing)

logout(bearer, refresh_token) ==
    LET req == [bearer |-> bearer, refresh_token |-> refresh_token]
        cur == get_current_user(users, bearer, now)
        r   == revoke_refresh_token(refresh_tokens, refresh_token, now)
    IN
    /\ UNCHANGED <<sessions, now, ticks, users>>
    /\ IF cur.status # 200
       THEN Refused("logout", bearer, cur) /\ UNCHANGED refresh_tokens
       ELSE IF ~r.ok
       THEN /\ last' = Resp("logout", 404, "Refresh token not found", req, Null,
                            [user |-> cur.user])
            /\ UNCHANGED refresh_tokens
       ELSE /\ refresh_tokens' = r.tbl
            /\ last' = Resp("logout", 200, "Successfully logged out", req, Null,
                            [user |-> cur.user])

setup_mfa_enabling(bearer, secret) ==
    LET req == [bearer |-> bearer]
        cur == get_current_active_user(users, bearer, now)
    IN
    /\ UNCHANGED <<sessions, now, ticks, refresh_tokens>>
    /\ IF cur.status # 200
       THEN Refused("mfa_setup", bearer, cur) /\ UNCHANGED users
       ELSE /\ users' = [users EXCEPT ![cur.user].mfa_secret = Some(secret),
                                      ![cur.user].mfa_enabled = TRUE]
            /\ last' = Resp("mfa_setup", 200, "", req, Some(users[cur.user]),
                            [user |-> cur.user, secret |-> secret])

setup_mfa(bearer, secret) ==
    LET req == [bearer |-> bearer]
        cur == get_current_active_user(users, bearer, now)
    IN
    /\ UNCHANGED <<sessions, now, ticks, refresh_tokens>>
    /\ IF cur.status # 200
       THEN Refused("mfa_setup", bearer, cur) /\ UNCHANGED users
       ELSE /\ users' = [users EXCEPT ![cur.user].mfa_secret = Some(secret)]
            /\ last' = Resp("mfa_setup", 200, "", req, Some(users[cur.user]),
                            [user |-> cur.user, secret |-> secret])

verify_mfa_without_setup(bearer, token) ==
    LET req == [bearer |-> bearer, token |-> token]
        cur == get_current_active_user(users, bearer, now)
        pre == Some(users[cur.user])
        out == [user |-> cur.user]
    IN
    /\ UNCHANGED <<sessions, now, ticks, refresh_tokens>>
    /\ IF cur.status # 200
       THEN Refused("mfa_verify", bearer, cur) /\ UNCHANGED users
       ELSE IF /\ users[cur.user].mfa_secret # Null
               /\ ~verify_totp(users[cur.user].mfa_secret[1], token, now)
       THEN /\ last' = Resp("mfa_verify", 200, "Invalid MFA token", req, pre, out)
            /\ UNCHANGED users
       ELSE /\ users' = [users EXCEPT ![cur.user].mfa_enabled = TRUE]
            /\ last' = Resp("mfa_verify", 200, "MFA successfully enabled", req, pre, out)

verify_mfa(bearer, token) ==
    LET req == [bearer |-> bearer, token |-> token]
        cur == get_current_active_user(users, bearer, now)
        pre == Some(users[cur.user])
        out == [user |-> cur.user]
    IN
    /\ UNCHANGED <<sessions, now, ticks, refresh_tokens>>
    /\ IF cur.status # 200
       THEN Refused("mfa_verify", bearer, cur) /\ UNCHANGED users
       ELSE IF users[cur.user].mfa_secret = Null
       THEN /\ last' = Resp("mfa_verify", 400, "MFA not set up. Call /mfa/setup first.",
                            req, pre, out)
            /\ UNCHANGED users
       ELSE IF ~verify_totp(users[cur.user].mfa_secret[1], token, now)
       THEN /\ last' = Resp("mfa_verify", 200, "Invalid MFA token", req, pre, out)
            /\ UNCHANGED users
       ELSE /\ users' = [users EXCEPT ![cur.user].mfa_enabled = TRUE]
            /\ last' = Resp("mfa_verify", 200, "MFA successfully enabled", req, pre, out)

change_password_keeping_sessions(bearer, old_password, new_password) ==
    LET req == [bearer |-> bearer, old_password |-> old_password,
                new_password |-> new_password]
        cur == get_current_active_user(users, bearer, now)
        pre == Some(users[cur.user])
    IN
    /\ UNCHANGED <<sessions, now, ticks, refresh_tokens>>
    /\ IF cur.status # 200
       THEN Refused("change_password", bearer, cur) /\ UNCHANGED users
       ELSE IF users[cur.user].password_hash = Null
       THEN /\ last' = Resp("change_password", 400,
                            "User doesn't have a password (OAuth user)",
                            req, pre, [user |-> cur.user])
            /\ UNCHANGED users
       ELSE IF ~verify_password(old_password, users[cur.user].password_hash[1])
       THEN /\ last' = Resp("change_password", 400, "Incorrect current password",
                            req, pre, [user |-> cur.user])
            /\ UNCHANGED users
       ELSE /\ users' = [users EXCEPT
                           ![cur.user].password_hash = Some(hash_password(new_password)),
                           ![cur.user].password_changed_at = Some(now)]
            /\ last' = Resp("change_password", 200, "Password changed successfully",
                            req, pre, [user |-> cur.user, count |-> 0])

change_password_unverified(bearer, old_password, new_password) ==
    LET req == [bearer |-> bearer, old_password |-> old_password,
                new_password |-> new_password]
        cur == get_current_active_user(users, bearer, now)
        pre == Some(users[cur.user])
    IN
    /\ UNCHANGED <<sessions, now, ticks>>
    /\ IF cur.status # 200
       THEN Refused("change_password", bearer, cur) /\ UNCHANGED <<users, refresh_tokens>>
       ELSE LET r == revoke_all_user_tokens(refresh_tokens, cur.user, now)
            IN  /\ users' = [users EXCEPT
                               ![cur.user].password_hash = Some(hash_password(new_password)),
                               ![cur.user].password_changed_at = Some(now)]
                /\ refresh_tokens' = r.tbl
                /\ last' = Resp("change_password", 200, "Password changed successfully",
                                req, pre, [user |-> cur.user, count |-> r.count])

change_password_unlocking(bearer, old_password, new_password) ==
    LET req == [bearer |-> bearer, old_password |-> old_password,
                new_password |-> new_password]
        cur == get_current_active_user(users, bearer, now)
        pre == Some(users[cur.user])
    IN
    /\ UNCHANGED <<sessions, now, ticks>>
    /\ IF cur.status # 200
       THEN Refused("change_password", bearer, cur) /\ UNCHANGED <<users, refresh_tokens>>
       ELSE IF users[cur.user].password_hash = Null
       THEN /\ last' = Resp("change_password", 400,
                            "User doesn't have a password (OAuth user)",
                            req, pre, [user |-> cur.user])
            /\ UNCHANGED <<users, refresh_tokens>>
       ELSE IF ~verify_password(old_password, users[cur.user].password_hash[1])
       THEN /\ last' = Resp("change_password", 400, "Incorrect current password",
                            req, pre, [user |-> cur.user])
            /\ UNCHANGED <<users, refresh_tokens>>
       ELSE LET r == revoke_all_user_tokens(refresh_tokens, cur.user, now)
            IN  /\ users' = [users EXCEPT
                               ![cur.user].password_hash = Some(hash_password(new_password)),
                               ![cur.user].password_changed_at = Some(now),
                               ![cur.user].failed_login_attempts = 0,
                               ![cur.user].locked_until = Null]
                /\ refresh_tokens' = r.tbl
                /\ last' = Resp("change_password", 200, "Password changed successfully",
                                req, pre, [user |-> cur.user, count |-> r.count])

change_password(bearer, old_password, new_password) ==
    LET req == [bearer |-> bearer, old_password |-> old_password,
                new_password |-> new_password]
        cur == get_current_active_user(users, bearer, now)
        pre == Some(users[cur.user])
    IN
    /\ UNCHANGED <<sessions, now, ticks>>
    /\ IF cur.status # 200
       THEN Refused("change_password", bearer, cur) /\ UNCHANGED <<users, refresh_tokens>>
       ELSE IF users[cur.user].password_hash = Null
       THEN /\ last' = Resp("change_password", 400,
                            "User doesn't have a password (OAuth user)",
                            req, pre, [user |-> cur.user])
            /\ UNCHANGED <<users, refresh_tokens>>
       ELSE IF ~verify_password(old_password, users[cur.user].password_hash[1])
       THEN /\ last' = Resp("change_password", 400, "Incorrect current password",
                            req, pre, [user |-> cur.user])
            /\ UNCHANGED <<users, refresh_tokens>>
       ELSE LET r == revoke_all_user_tokens(refresh_tokens, cur.user, now)
            IN  /\ users' = [users EXCEPT
                               ![cur.user].password_hash = Some(hash_password(new_password)),
                               ![cur.user].password_changed_at = Some(now)]
                /\ refresh_tokens' = r.tbl
                /\ last' = Resp("change_password", 200, "Password changed successfully",
                                req, pre, [user |-> cur.user, count |-> r.count])

\* GET /me
get_current_user_info(bearer) ==
    LET cur == get_current_user(users, bearer, now)
    IN  /\ UNCHANGED <<sessions, now, ticks, users, refresh_tokens>>
        /\ last' = Resp("me", cur.status, cur.detail, [bearer |-> bearer], Null,
                        [user |-> cur.user])

(* --------------------------- specification ---------------------------- *)
\* MFA codes a client can submit: none, or the current code of some secret
MfaInputs == {Null} \cup {Some(TOTP(s, now)) : s \in Secrets}

\* The provisioned account is driven only by its owner, who knows its password
\* and never enrols in MFA or changes the password; the account created by
\* signup is driven with every input.
SeedEmail == EmailOf(1)
OwnerOnly(email, password, mfa_token) ==
    email = SeedEmail => (password = PW_A /\ mfa_token = Null)
SelfService == {b \in AccessTokens : b.sub # 1}

\* the bounds of an exploration, on the state a login leads to
Within(tbl, us, maxTokens, maxFailed) ==
    /\ Len(tbl) <= maxTokens
    /\ \A i \in DOMAIN us : us[i].failed_login_attempts <= maxFailed

Next ==
    \/ \E d \in TickSteps : Tick(d)
    \/ \E e \in AllEmails, st \in {"PASSWORD", "GOOGLE_OAUTH"},
          p \in {Null, Some(PW_A)} : signup(e, st, p)
    \/ \E e \in AllEmails, p \in Passwords, m \in MfaInputs :
          /\ OwnerOnly(e, p, m)
          /\ login(e, p, m)
          /\ Within(refresh_tokens', users', MaxTokens, MaxFailedFew)
    \/ \E t \in RefreshInputs \cup {NoSubjectToken} : refresh_access_token(t)
    \/ \E b \in Bearers : get_current_user_info(b)
    \/ \E b \in AccessTokens, t \in RefreshInputs : logout(b, t)
    \/ \E b \in SelfService, s \in Secrets : setup_mfa(b, s)
    \/ \E b \in SelfService, s \in Secrets : verify_mfa(b, TOTP(s, now))
    \/ \E b \in SelfService, o \in Passwords, n \in Passwords : change_password(b, o, n)

Spec == Init /\ [][Next]_vars

\* the same requests, explored up to the lockout and beyond it
NextLockout ==
    \/ \E d \in TickSteps : Tick(d)
    \/ \E e \in AllEmails, st \in {"PASSWORD", "GOOGLE_OAUTH"},
          p \in {Null, Some(PW_A)} : signup(e, st, p)
    \/ \E e \in AllEmails, p \in Passwords, m \in MfaInputs :
          /\ OwnerOnly(e, p, m)
          /\ login(e, p, m)
          /\ Within(refresh_tokens', users', MaxTokensFew, MaxFailed)
    \/ \E t \in RefreshInputs \cup {NoSubjectToken} : refresh_access_token(t)
    \/ \E b \in Bearers : get_current_user_info(b)
    \/ \E b \in AccessTokens, t \in RefreshInputs : logout(b, t)
    \/ \E b \in SelfService, s \in Secrets : setup_mfa(b, s)
    \/ \E b \in SelfService, s \in Secrets : verify_mfa(b, TOTP(s, now))
    \/ \E b \in SelfService, o \in Passwords, n \in Passwords : change_password(b, o, n)

SpecLockout == Init /\ [][NextLockout]_vars

(* ------------------- the secret hasher on long secrets ----------------- *)
\* Secrets as UTF-8 byte strings of lengths around the bcrypt limit: all "A"
\* except one byte, which may be the lead byte of a two-byte character.
SecretLengths == {3} \cup ((BCRYPT_MAX_BYTES - 1) .. MaxSecretBytes)
OddBytes == {66, 195}
SecretOf(n, k, c) == [i \in 1..n |-> IF i = k THEN c ELSE 65]
LongSecrets ==
    {SecretOf(n, k, c) : n \in SecretLengths,
                         k \in {1} \cup ((BCRYPT_MAX_BYTES - 1) .. MaxSecretBytes),
                         c \in OddBytes}

InitHasher ==
    /\ now = 0
    /\ ticks = 0
    /\ users = <<>>
    /\ refresh_tokens = <<>>
    /\ sessions = <<>>
    /\ \E p \in LongSecrets, q \in LongSecrets :
          last = Resp("secrets", 0, "", [p |-> p, q |-> q], Null, Nothing)

\* hash_password(p)
hash_secret ==
    /\ last.op = "secrets"
    /\ last' = Resp("hash_password", 0, "", last.req, Null,
                    [hash |-> hash_password(last.req.p)])
    /\ UNCHANGED <<sessions, now, ticks, users, refresh_tokens>>

\* verify_password(q, hash_password(p))
verify_secret ==
    /\ last.op = "hash_password"
    /\ last' = Resp("verify_password", 0, "", last.req, Null,
                    [hash |-> last.out.hash,
                     ok   |-> verify_password(last.req.q, last.out.hash)])
    /\ UNCHANGED <<sessions, now, ticks, users, refresh_tokens>>

NextHasher == hash_secret \/ verify_secret

SpecHasher == InitHasher /\ [][NextHasher]_vars

(* ------------------- login requests that interleave ------------------- *)
\* Each request works on the database session get_db gives it: the User row
\* it selected is the session's own copy, and a commit flushes the attributes
\* the request changed on that copy.  `sessions` holds the login requests in
\* the order of their SELECT: the copy loaded (user), where the request is
\* (pc), the status it answered and the refresh_tokens row it inserted.

\* the UPDATE a commit flushes: the attributes of obj that differ from the
\* values loaded, written as absolute values
flush(us, id, loaded, obj) ==
    [us EXCEPT ![id] = [f \in DOMAIN obj |->
                           IF obj[f] # loaded[f] THEN obj[f] ELSE us[id][f]]]

Inflight == {s \in DOMAIN sessions : sessions[s].pc # "done"}

RaceStore ==
    [users |-> (1 :> SeedUser("ACTIVE", TRUE)), refresh_tokens |-> <<SeedRow>>]

InitRace ==
    /\ now = 0
    /\ ticks = 0
    /\ users = RaceStore.users
    /\ refresh_tokens = RaceStore.refresh_tokens
    /\ last = Resp("start", 0, "", Nothing, Null, Nothing)
    /\ sessions = <<>>

\* authenticate_user up to its first await: SELECT the user by email
login_select(email, password) ==
    LET ids == {i \in DOMAIN users : users[i].email = email}
        id  == IF ids = {} THEN 0 ELSE CHOOSE i \in ids : TRUE
    IN  /\ Len(sessions) < MaxRequests
        /\ Cardinality(Inflight) < MaxInflight
        /\ sessions' = Append(sessions,
               [email |-> email, password |-> password, pc |-> "selected",
                id |-> id, user |-> IF id = 0 THEN Null ELSE Some(users[id]),
                status |-> 0, row |-> 0])
        /\ UNCHANGED <<now, ticks, users, refresh_tokens, last>>

\* the same step had the request locked and re-read the row before checking
login_authenticate_refreshed(s) ==
    LET ses == sessions[s]
        req == [email |-> ses.email, password |-> ses.password, mfa_token |-> Null]
        r   == authenticate_user(users, ses.email, ses.password, Null, now)
    IN  /\ ses.pc = "selected"
        /\ users' = r.users
        /\ IF r.user = Null
           THEN /\ sessions' = [sessions EXCEPT ![s].pc = "done", ![s].status = 401]
                /\ last' = Resp("login", 401, "Incorrect email or password",
                                req, ses.user, Nothing)
           ELSE /\ sessions' = [sessions EXCEPT ![s].pc = "authenticated"]
                /\ UNCHANGED last
        /\ UNCHANGED <<now, ticks, refresh_tokens>>

\* authenticate_user from the row selected to its commit: the checks run on
\* the session's copy of the row, the commit writes what they changed; a
\* None result ends the request with the 401
login_authenticate(s) ==
    LET ses    == sessions[s]
        req    == [email |-> ses.email, password |-> ses.password, mfa_token |-> Null]
        loaded == IF ses.id = 0 THEN <<>> ELSE (ses.id :> ses.user[1])
        r      == authenticate_user(loaded, ses.email, ses.password, Null, now)
    IN  /\ ses.pc = "selected"
        /\ users' = IF ses.id = 0 THEN users
                    ELSE flush(users, ses.id, ses.user[1], r.users[ses.id])
        /\ IF r.user = Null
           THEN /\ sessions' = [sessions EXCEPT ![s].pc = "done", ![s].status = 401]
                /\ last' = Resp("login", 401, "Incorrect email or password",
                                req, ses.user, Nothing)
           ELSE /\ sessions' = [sessions EXCEPT ![s].pc = "authenticated"]
                /\ UNCHANGED last
        /\ UNCHANGED <<now, ticks, refresh_tokens>>

\* login after authenticate_user returned the user: mint the tokens, insert
\* the refresh_tokens row (a commit), record the last login (a commit that
\* writes no column of this model) and answer
login_issue(s) ==
    LET ses     == sessions[s]
        req     == [email |-> ses.email, password |-> ses.password, mfa_token |-> Null]
        access  == create_access_token(ses.id, now)
        jti     == Len(refresh_tokens) + 1
        refresh == create_refresh_token(ses.id, jti, now)
    IN  /\ ses.pc = "authenticated"
        /\ refresh_tokens' = save_refresh_token(refresh_tokens, ses.id, refresh, jti,
                                                now + REFRESH_MINUTES)
        /\ sessions' = [sessions EXCEPT ![s].pc = "done", ![s].status = 200,
                                        ![s].row = Len(refresh_tokens) + 1]
        /\ last' = Resp("login", 200, "", req, ses.user,
                        [access_token |-> access, refresh_token |-> refresh])
        /\ UNCHANGED <<now, ticks, users>>

\* the accounts whose password was changed
PasswordChanges == {i \in DOMAIN users : users[i].password_changed_at # Null}

NextRace ==
    \/ \E p \in Passwords : login_select(SeedEmail, p)
    \/ \E s \in DOMAIN sessions : login_authenticate(s)
    \/ \E s \in DOMAIN sessions : login_issue(s)
    \/ \E o \in Passwords, n \in Passwords :
          /\ Cardinality(PasswordChanges) < MaxChanges
          /\ change_password(AccessOf(SeedRow), o, n)

SpecRace == InitRace /\ [][NextRace]_vars

(* ------------------------------- claims ------------------------------- *)
\* the account a login request names, in the users table `us`
AccountOf(us, email) == CHOOSE i \in DOMAIN us : us[i].email = email
Registered(us, email) == \E i \in DOMAIN us : us[i].email = email

\* the response login gives for InvalidCredentials (unknown email, wrong password)
InvalidCredentialsStatus == 401
InvalidCredentialsDetail == "Incorrect email or password"

\* the password a login submitted passes the password step for account `user`
PasswordStepPasses(user, password) ==
    \/ user.security_type # "PASSWORD"
    \/ user.password_hash # Null /\ verify_password(password, user.password_hash[1])

\* the MFA code a login submitted verifies against the stored secret of `user`
MfaCodeVerifies(user, mfa_token, tm) ==
    /\ mfa_token # Null
    /\ user.mfa_secret # Null
    /\ verify_totp(user.mfa_secret[1], mfa_token[1], tm)

\* the instants around the expiry of a row, and the present
TimesAround(row) == {now, row.expires_at - 1, row.expires_at, row.expires_at + 1}

\* C1: for every persisted refresh-token row and every time, verify_refresh_token
\* given the row's token string returns that row if and only if the row is not
\* revoked and expires later than that time; otherwise it returns none.
C1_VerifyIffUsable ==
    \A i \in DOMAIN refresh_tokens : \A tm \in TimesAround(refresh_tokens[i]) :
        verify_refresh_token(refresh_tokens, refresh_tokens[i].token, tm)
          = IF ~refresh_tokens[i].revoked /\ refresh_tokens[i].expires_at > tm
            THEN Some(refresh_tokens[i]) ELSE Null

\* C1 witness: the table holds a revoked row that has not expired and an
\* expired row that is not revoked.
C1_Witness ==
    /\ \E i \in DOMAIN refresh_tokens :
          refresh_tokens[i].revoked /\ refresh_tokens[i].expires_at > now
    /\ \E i \in DOMAIN refresh_tokens :
          ~refresh_tokens[i].revoked /\ refresh_tokens[i].expires_at <= now

\* C2: a logout that succeeds leaves the row of its token revoked, and a row
\* that is revoked stays in the table revoked whatever request or passage of
\* time follows: verify_refresh_token never returns it again and every refresh
\* with its token is answered 401.
C2_RevocationPermanent ==
    [][ /\ (last'.op = "logout" /\ last'.status = 200) =>
              \E i \in DOMAIN refresh_tokens' :
                 /\ refresh_tokens'[i].token = last'.req.refresh_token
                 /\ refresh_tokens'[i].revoked
        /\ \A i \in DOMAIN refresh_tokens : refresh_tokens[i].revoked =>
              /\ i \in DOMAIN refresh_tokens'
              /\ refresh_tokens'[i].token = refresh_tokens[i].token
              /\ refresh_tokens'[i].revoked
              /\ verify_refresh_token(refresh_tokens', refresh_tokens[i].token, now') = Null
              /\ (last'.op = "refresh" /\ last'.req.refresh_token = refresh_tokens[i].token)
                    => last'.status = 401
      ]_vars

\* C2 witness: a refresh was just refused for a token whose row is revoked but
\* has not expired, and the owner of the token is an active user.
C2_Witness ==
    /\ last.op = "refresh"
    /\ last.status = 401
    /\ \E i \in DOMAIN refresh_tokens :
          /\ refresh_tokens[i].token = last.req.refresh_token
          /\ refresh_tokens[i].revoked
          /\ refresh_tokens[i].expires_at > now
          /\ users[refresh_tokens[i].user_id].is_active

\* C3: revoke_all_user_tokens(u), as password change calls it, leaves every
\* refresh token of u that existed failing verify_refresh_token, returns the
\* number of u's rows that were not revoked before the call (expired ones
\* included), and changes no row of any other user.
C3_RevokeAllForUser ==
    [][ (last'.op = "change_password" /\ last'.status = 200) =>
          LET u == last'.out.user
          IN  /\ DOMAIN refresh_tokens' = DOMAIN refresh_tokens
              /\ \A i \in DOMAIN refresh_tokens :
                    IF refresh_tokens[i].user_id = u
                    THEN verify_refresh_token(refresh_tokens', refresh_tokens[i].token,
                                              now') = Null
                    ELSE refresh_tokens'[i] = refresh_tokens[i]
              /\ last'.out.count =
                    Cardinality({i \in DOMAIN refresh_tokens :
                                    /\ refresh_tokens[i].user_id = u
                                    /\ ~refresh_tokens[i].revoked})
      ]_vars

\* C3 witness: a password change just revoked at least one token of its user
\* while another user holds a token that is still valid.
C3_Witness ==
    /\ last.op = "change_password"
    /\ last.status = 200
    /\ last.out.count >= 1
    /\ \E i \in DOMAIN refresh_tokens :
          /\ refresh_tokens[i].user_id # last.out.user
          /\ is_valid(refresh_tokens[i], now)

\* C4 (as claimed): the fifth consecutive wrong-password login of an active
\* password account locks it, and a login with the correct password during the
\* lockout fails with an outcome the caller can tell from InvalidCredentials.
C4_LockedOutcomeDistinct ==
    (last.op = "login" /\ last.pre # Null) =>
        LET before == last.pre[1]
            after  == users[AccountOf(users, last.req.email)]
        IN  /\ ( /\ can_login(before, now)
                 /\ before.security_type = "PASSWORD"
                 /\ before.password_hash # Null
                 /\ ~verify_password(last.req.password, before.password_hash[1])
                 /\ before.failed_login_attempts = LOCK_THRESHOLD - 1 )
               => is_locked(after, now)
            /\ ( /\ is_locked(before, now)
                 /\ before.is_active /\ before.status = "ACTIVE"
                 /\ PasswordStepPasses(before, last.req.password) )
               => /\ last.status # 200
                  /\ <<last.status, last.detail>>
                        # <<InvalidCredentialsStatus, InvalidCredentialsDetail>>

\* C5: every successful authentication leaves the account with a failure
\* counter of zero and not locked, whatever the counter and lockout-until were.
C5_SuccessResets ==
    (last.op = "login" /\ last.status = 200) =>
        LET after == users[AccountOf(users, last.req.email)]
        IN  /\ after.failed_login_attempts = 0
            /\ ~is_locked(after, now)

\* C5 witness: a login just succeeded on an account whose counter had reached
\* the threshold and whose lockout-until was set (and has passed).
C5_Witness ==
    /\ last.op = "login"
    /\ last.status = 200
    /\ last.pre[1].failed_login_attempts >= LOCK_THRESHOLD
    /\ last.pre[1].locked_until # Null

\* C6 (as claimed): with MFA enabled a login succeeds only with a code that
\* verifies against the stored secret; a missing code and a wrong code each
\* fail with an outcome the caller can tell from InvalidCredentials.
C6_MfaOutcomesDistinct ==
    (last.op = "login" /\ last.pre # Null /\ last.pre[1].mfa_enabled) =>
        LET before == last.pre[1]
        IN  /\ last.status = 200 => MfaCodeVerifies(before, last.req.mfa_token, now)
            /\ ( /\ can_login(before, now)
                 /\ PasswordStepPasses(before, last.req.password)
                 /\ ~MfaCodeVerifies(before, last.req.mfa_token, now) )
               => /\ last.status # 200
                  /\ <<last.status, last.detail>>
                        # <<InvalidCredentialsStatus, InvalidCredentialsDetail>>

\* C7: a login that passes the password check and fails the MFA step (code
\* missing, secret missing or code wrong) is refused and leaves the users
\* table, so the failure counter and lockout-until, exactly as it was.
C7_MfaFailureWritesNothing ==
    [][ ( /\ last'.op = "login"
          /\ Registered(users, last'.req.email)
          /\ LET before == users[AccountOf(users, last'.req.email)]
             IN  /\ can_login(before, now)
                 /\ PasswordStepPasses(before, last'.req.password)
                 /\ before.mfa_enabled
                 /\ ~MfaCodeVerifies(before, last'.req.mfa_token, now) )
        => (users' = users /\ refresh_tokens' = refresh_tokens /\ last'.status = 401)
      ]_vars

\* C7 witness: a login with the right password and a wrong MFA code was just
\* refused on an account that has failed password attempts on its counter,
\* and the account is as it was.
C7_Witness ==
    /\ last.op = "login"
    /\ last.status = 401
    /\ last.pre # Null
    /\ last.pre[1].mfa_enabled
    /\ last.pre[1].failed_login_attempts >= 1
    /\ can_login(last.pre[1], now)
    /\ PasswordStepPasses(last.pre[1], last.req.password)
    /\ last.req.mfa_token # Null
    /\ users[AccountOf(users, last.req.email)] = last.pre[1]

\* C8: the MFA-enabled flag of an account turns true only in mfa/verify of that
\* account with a code that verifies against the stored secret; mfa/setup
\* leaves every flag as it is; and an account with MFA disabled that may log
\* in and submits its password and no code is logged in.
C8_MfaEnabledOnlyByVerify ==
    [][ /\ \A u \in DOMAIN users :
              /\ (~users[u].mfa_enabled /\ users'[u].mfa_enabled) =>
                    /\ last'.op = "mfa_verify"
                    /\ last'.status = 200
                    /\ last'.out.user = u
                    /\ users[u].mfa_secret # Null
                    /\ verify_totp(users[u].mfa_secret[1], last'.req.token, now)
              /\ last'.op = "mfa_setup" => users'[u].mfa_enabled = users[u].mfa_enabled
        /\ ( /\ last'.op = "login"
             /\ Registered(users, last'.req.email)
             /\ LET before == users[AccountOf(users, last'.req.email)]
                IN  /\ ~before.mfa_enabled
                    /\ can_login(before, now)
                    /\ before.security_type = "PASSWORD" => before.password_hash # Null
                    /\ PasswordStepPasses(before, last'.req.password)
                    /\ last'.req.mfa_token = Null )
           => last'.status = 200
      ]_vars

\* C8 witness: an account that stored a secret with mfa/setup and never
\* confirmed it has just logged in without a code.
C8_Witness ==
    /\ last.op = "login"
    /\ last.status = 200
    /\ last.req.mfa_token = Null
    /\ last.pre[1].mfa_secret # Null
    /\ ~last.pre[1].mfa_enabled
    /\ ~users[AccountOf(users, last.req.email)].mfa_enabled

\* C9: a successful logout sets revoked on the one row whose token string was
\* supplied, leaves every other row and every user record unchanged, and the
\* access token that authenticated the logout is still accepted afterwards.
C9_LogoutRevokesOneRow ==
    [][ (last'.op = "logout" /\ last'.status = 200) =>
          LET hits == {i \in DOMAIN refresh_tokens :
                          refresh_tokens[i].token = last'.req.refresh_token}
          IN  /\ Cardinality(hits) = 1
              /\ DOMAIN refresh_tokens' = DOMAIN refresh_tokens
              /\ \A i \in DOMAIN refresh_tokens :
                    IF i \in hits
                    THEN refresh_tokens'[i] =
                            [refresh_tokens[i] EXCEPT !.revoked = TRUE,
                                                      !.revoked_at = Some(now)]
                    ELSE refresh_tokens'[i] = refresh_tokens[i]
              /\ users' = users
              /\ get_current_user(users', last'.req.bearer, now').status = 200
      ]_vars

\* C9 witness: a logout just revoked the refresh token that was issued
\* together with the access token it was authenticated with, while another
\* row of the table stays valid.
C9_Witness ==
    /\ last.op = "logout"
    /\ last.status = 200
    /\ \E i \in DOMAIN refresh_tokens :
          /\ refresh_tokens[i].token = last.req.refresh_token
          /\ AccessOf(refresh_tokens[i]) = last.req.bearer
          /\ refresh_tokens[i].revoked
    /\ \E i \in DOMAIN refresh_tokens :
          /\ refresh_tokens[i].token # last.req.refresh_token
          /\ is_valid(refresh_tokens[i], now)
    /\ get_current_user(users, last.req.bearer, now).status = 200

\* C10: a password change succeeds only if the old password verifies against
\* the stored hash; on return the stored hash is the hash of the new password,
\* password-changed-at is stamped, and every refresh token of the user that
\* was valid before is revoked and fails verify_refresh_token.
C10_PasswordChange ==
    [][ (last'.op = "change_password" /\ last'.status = 200) =>
          LET u == last'.out.user
          IN  /\ users[u].password_hash # Null
              /\ verify_password(last'.req.old_password, users[u].password_hash[1])
              /\ users'[u].password_hash = Some(hash_password(last'.req.new_password))
              /\ verify_password(last'.req.new_password, users'[u].password_hash[1])
              /\ users'[u].password_changed_at = Some(now')
              /\ \A i \in DOMAIN refresh_tokens :
                    (refresh_tokens[i].user_id = u /\ is_valid(refresh_tokens[i], now)) =>
                       /\ refresh_tokens'[i].revoked
                       /\ verify_refresh_token(refresh_tokens', refresh_tokens[i].token,
                                               now') = Null
      ]_vars

\* C10 witness: a password change to a different password has just succeeded
\* and revoked a token of the user that had not expired.
C10_Witness ==
    /\ last.op = "change_password"
    /\ last.status = 200
    /\ last.req.old_password # last.req.new_password
    /\ \E i \in DOMAIN refresh_tokens :
          /\ refresh_tokens[i].user_id = last.out.user
          /\ refresh_tokens[i].revoked_at = Some(now)
          /\ refresh_tokens[i].expires_at > now

\* the responses change_password gives when the account has no password hash
\* (PasswordNotSet / PasswordRequired) and when the old password is wrong
PasswordNotSetDetail == "User doesn't have a password (OAuth user)"
IncorrectCurrentPasswordDetail == "Incorrect current password"
BadRequestStatus == 400

\* C11: a password change by an authenticated user fails (400, PasswordNotSet)
\* when the account has no password hash, and fails (400) when the old password
\* does not verify against the hash; in both cases the users table (hash and
\* password-changed-at) and every refresh-token row stay as they were.
C11_PasswordChangeErrors ==
    [][ ( /\ last'.op = "change_password"
          /\ get_current_active_user(users, last'.req.bearer, now).status = 200 )
        => LET u == get_current_active_user(users, last'.req.bearer, now).user
           IN  /\ users[u].password_hash = Null =>
                     /\ last'.status = BadRequestStatus
                     /\ last'.detail = PasswordNotSetDetail
                     /\ users' = users /\ refresh_tokens' = refresh_tokens
               /\ ( /\ users[u].password_hash # Null
                    /\ ~verify_password(last'.req.old_password, users[u].password_hash[1]) )
                  => /\ last'.status = BadRequestStatus
                     /\ last'.detail = IncorrectCurrentPasswordDetail
                     /\ users' = users /\ refresh_tokens' = refresh_tokens
               /\ last'.status # 200 =>
                     (users' = users /\ refresh_tokens' = refresh_tokens)
      ]_vars

\* C11 witness: a password change was just refused for an account without a
\* password hash that holds a valid refresh token.
C11_Witness ==
    /\ last.op = "change_password"
    /\ last.status = BadRequestStatus
    /\ last.detail = PasswordNotSetDetail
    /\ users[last.out.user].password_hash = Null
    /\ users[last.out.user].password_changed_at = Null
    /\ \E i \in DOMAIN refresh_tokens :
          /\ refresh_tokens[i].user_id = last.out.user
          /\ is_valid(refresh_tokens[i], now)

\* C12: a password change leaves the failure counter and lockout-until of
\* every account as they were, so a locked account stays locked; and a failure
\* counter goes down only in a successful login of that account.
C12_PasswordChangeKeepsLockout ==
    [][ \A u \in DOMAIN users :
          /\ last'.op = "change_password" =>
                /\ users'[u].failed_login_attempts = users[u].failed_login_attempts
                /\ users'[u].locked_until = users[u].locked_until
                /\ is_locked(users'[u], now') = is_locked(users[u], now)
          /\ users'[u].failed_login_attempts < users[u].failed_login_attempts =>
                /\ last'.op = "login"
                /\ last'.status = 200
                /\ last'.req.email = users[u].email
      ]_vars

\* C12 witness: a locked account has just changed its password and is still
\* locked, with its counter at the threshold.
C12_Witness ==
    /\ last.op = "change_password"
    /\ last.status = 200
    /\ is_locked(last.pre[1], now)
    /\ is_locked(users[last.out.user], now)
    /\ users[last.out.user].failed_login_attempts >= LOCK_THRESHOLD

\* C13: a successful refresh leaves the refresh_tokens table and the users
\* table as they were (no new row, the presented row not revoked, its expiry
\* unchanged), returns the refresh token string it was given and an access
\* token minted now for that token's subject; and a refresh with the token of
\* a row that is valid, whose subject is an active user, always succeeds, so
\* the same token serves any number of refreshes until revoked or expired.
C13_RefreshNoRotation ==
    [][ last'.op = "refresh" =>
          LET t    == last'.req.refresh_token
              hits == {i \in DOMAIN refresh_tokens : refresh_tokens[i].token = t}
          IN  /\ refresh_tokens' = refresh_tokens
              /\ users' = users
              /\ last'.status = 200 =>
                    /\ \E i \in hits : is_valid(refresh_tokens'[i], now')
                    /\ last'.out.refresh_token = t
                    /\ last'.out.access_token = create_access_token(t.sub, now)
                    /\ decode_token(last'.out.access_token, now) # Null
              /\ ( \E i \in hits : /\ is_valid(refresh_tokens[i], now)
                                   /\ users[refresh_tokens[i].user_id].is_active )
                 => last'.status = 200
      ]_vars

\* C13 witness: a refresh has just succeeded at a time later than the login
\* that issued the token, so the access token it returned is a new one, and
\* the row of the token is still valid.
C13_Witness ==
    /\ last.op = "refresh"
    /\ last.status = 200
    /\ \E i \in DOMAIN refresh_tokens :
          /\ refresh_tokens[i].token = last.req.refresh_token
          /\ is_valid(refresh_tokens[i], now)
          /\ last.out.access_token # AccessOf(refresh_tokens[i])
          /\ last.out.access_token.sub = refresh_tokens[i].user_id

\* C14 (as claimed): unknown email and wrong password are reported as
\* InvalidCredentials, while a login to a locked account and a login to an
\* inactive, suspended or pending account are each reported with an outcome
\* the caller can tell from InvalidCredentials.
C14_FailureTaxonomy ==
    last.op = "login" =>
        /\ last.pre = Null =>
              <<last.status, last.detail>>
                 = <<InvalidCredentialsStatus, InvalidCredentialsDetail>>
        /\ ( /\ last.pre # Null
             /\ can_login(last.pre[1], now)
             /\ ~PasswordStepPasses(last.pre[1], last.req.password) )
           => <<last.status, last.detail>>
                 = <<InvalidCredentialsStatus, InvalidCredentialsDetail>>
        /\ ( /\ last.pre # Null
             /\ ~can_login(last.pre[1], now) )
           => /\ last.status # 200
              /\ <<last.status, last.detail>>
                    # <<InvalidCredentialsStatus, InvalidCredentialsDetail>>

\* the response logout gives for TokenNotFound
TokenNotFoundStatus == 404
TokenNotFoundDetail == "Refresh token not found"

\* C15: an authenticated logout with a refresh-token string that matches no
\* row is answered 404 (TokenNotFound) and changes no refresh-token row and no
\* user record.
C15_LogoutUnknownToken ==
    [][ ( /\ last'.op = "logout"
          /\ get_current_user(users, last'.req.bearer, now).status = 200
          /\ \A i \in DOMAIN refresh_tokens :
                refresh_tokens[i].token # last'.req.refresh_token )
        => /\ last'.status = TokenNotFoundStatus
           /\ last'.detail = TokenNotFoundDetail
           /\ refresh_tokens' = refresh_tokens
           /\ users' = users
      ]_vars

\* C15 witness: a logout with a token string of no row was just answered 404
\* while the caller's own refresh token is still valid.
C15_Witness ==
    /\ last.op = "logout"
    /\ last.status = TokenNotFoundStatus
    /\ \A i \in DOMAIN refresh_tokens : refresh_tokens[i].token # last.req.refresh_token
    /\ \E i \in DOMAIN refresh_tokens :
          /\ refresh_tokens[i].user_id = last.out.user
          /\ is_valid(refresh_tokens[i], now)

\* C16 (as claimed): an authenticated logout, which calls revoke_refresh_token,
\* reports not-found exactly when no row has the token string and succeeds
\* whenever such a row exists, already revoked or not; and revoking a row that
\* is already revoked leaves the table as the first revocation left it,
\* revocation timestamp included.
C16_RevokeIdempotent ==
    [][ ( /\ last'.op = "logout"
          /\ get_current_user(users, last'.req.bearer, now).status = 200 )
        => LET hits == {i \in DOMAIN refresh_tokens :
                           refresh_tokens[i].token = last'.req.refresh_token}
               r    == revoke_refresh_token(refresh_tokens, last'.req.refresh_token, now)
           IN  /\ r.ok = (hits # {})
               /\ (last'.status = 200) = (hits # {})
               /\ refresh_tokens' = r.tbl
               /\ revoke_refresh_token(r.tbl, last'.req.refresh_token, now') = r
               /\ (\E i \in hits : refresh_tokens[i].revoked) =>
                     refresh_tokens' = refresh_tokens
      ]_vars

\* the three conjuncts of eligibility, as the claim states them
Eligible(user, tm) ==
    /\ user.is_active
    /\ user.status = "ACTIVE"
    /\ ~(user.locked_until # Null /\ user.locked_until[1] > tm)

\* C17: an account can authenticate at a time iff it is active, its status is
\* ACTIVE and it is not locked at that time; a login succeeds only on such an
\* account, and a login to an account that fails a conjunct is refused, issues
\* no token and leaves the users table (counter, lockout-until) and the
\* refresh_tokens table unchanged, whatever password is submitted.
C17_CanLoginIff ==
    [][ /\ \A u \in DOMAIN users : \A tm \in {now, now'} :
              can_login(users[u], tm) = Eligible(users[u], tm)
        /\ (last'.op = "login" /\ Registered(users, last'.req.email)) =>
              LET before == users[AccountOf(users, last'.req.email)]
              IN  /\ last'.status = 200 => Eligible(before, now)
                  /\ ~Eligible(before, now) =>
                        /\ last'.status = 401
                        /\ last'.out = Nothing
                        /\ users' = users
                        /\ refresh_tokens' = refresh_tokens
      ]_vars

\* C17 witness: a login with the correct password was just refused on an
\* account that is active by flag but whose status is not ACTIVE, and the
\* account is as it was.
C17_Witness ==
    /\ last.op = "login"
    /\ last.status = 401
    /\ last.pre # Null
    /\ last.pre[1].is_active
    /\ last.pre[1].status # "ACTIVE"
    /\ ~is_locked(last.pre[1], now)
    /\ PasswordStepPasses(last.pre[1], last.req.password)
    /\ users[AccountOf(users, last.req.email)] = last.pre[1]

\* C18: a lockout is set to 30 minutes after the failure that triggers it; no
\* request other than a login writes lockout-until; and once the clock has
\* reached lockout-until, a login with the correct password (and a valid code
\* if MFA is enabled) on an active account succeeds with no unlock having run.
C18_AutoUnlock ==
    [][ /\ \A u \in DOMAIN users :
              users'[u].locked_until # users[u].locked_until =>
                 /\ last'.op = "login"
                 /\ last'.status = 401
                 /\ last'.req.email = users[u].email
                 /\ users'[u].locked_until = Some(now + LOCKOUT_MINUTES)
                 /\ users'[u].failed_login_attempts >= LOCK_THRESHOLD
        /\ ( /\ last'.op = "login"
             /\ Registered(users, last'.req.email)
             /\ LET before == users[AccountOf(users, last'.req.email)]
                IN  /\ before.is_active /\ before.status = "ACTIVE"
                    /\ before.locked_until # Null
                    /\ before.locked_until[1] <= now
                    /\ PasswordStepPasses(before, last'.req.password)
                    /\ before.mfa_enabled =>
                          MfaCodeVerifies(before, last'.req.mfa_token, now) )
           => last'.status = 200
      ]_vars

\* C18 witness: a login has just succeeded at the very minute the lockout
\* ended, and the lockout-until timestamp is still the one the lock wrote.
C18_Witness ==
    /\ last.op = "login"
    /\ last.status = 200
    /\ last.pre[1].locked_until = Some(now)
    /\ users[AccountOf(users, last.req.email)].locked_until = Some(now)

\* C19: a successful login appends exactly one refresh-token row and leaves
\* every earlier row as it was; the new row is owned by the authenticated
\* user, holds the returned token, is not revoked, has a token id no earlier
\* row has and expires at now + the refresh lifetime; a failed login leaves the
\* table unchanged.
C19_LoginInsertsOneRow ==
    [][ last'.op = "login" =>
          IF last'.status = 200
          THEN LET n == Len(refresh_tokens) + 1
               IN  /\ Len(refresh_tokens') = n
                   /\ \A i \in DOMAIN refresh_tokens :
                         refresh_tokens'[i] = refresh_tokens[i]
                   /\ refresh_tokens'[n].user_id = AccountOf(users, last'.req.email)
                   /\ refresh_tokens'[n].token = last'.out.refresh_token
                   /\ ~refresh_tokens'[n].revoked
                   /\ refresh_tokens'[n].revoked_at = Null
                   /\ refresh_tokens'[n].expires_at = now + REFRESH_MINUTES
                   /\ \A i \in DOMAIN refresh_tokens :
                         /\ refresh_tokens[i].jti # refresh_tokens'[n].jti
                         /\ refresh_tokens[i].token # refresh_tokens'[n].token
          ELSE refresh_tokens' = refresh_tokens
      ]_vars

\* C19 witness: a user has just logged in a second time and holds two rows,
\* the first of them still valid.
C19_Witness ==
    /\ last.op = "login"
    /\ last.status = 200
    /\ Len(refresh_tokens) = 2
    /\ refresh_tokens[1].user_id = refresh_tokens[2].user_id
    /\ is_valid(refresh_tokens[1], now)
    /\ refresh_tokens[2].token = last.out.refresh_token

\* the response for InvalidToken
InvalidTokenStatus == 401

\* a token string get_current_user or the refresh endpoint cannot use: it does
\* not decode (bad signature, expired) or its payload has no subject
Unusable(token, tm) ==
    \/ decode_token(token, tm) = Null
    \/ "sub" \notin DOMAIN token

\* C21 (as claimed): every request that presents a token which cannot be
\* decoded or has no usable subject, to get_current_user or to the refresh
\* endpoint, is answered 401 (InvalidToken); none ends in an uncaught exception.
C21_InvalidTokenBoundary ==
    /\ (last.op = "me" /\ Unusable(last.req.bearer, now)) =>
          last.status = InvalidTokenStatus
    /\ (last.op = "refresh" /\ Unusable(last.req.refresh_token, now)) =>
          last.status = InvalidTokenStatus

\* C22: in every reachable state an account with MFA enabled has a stored MFA
\* secret (no secret implies MFA disabled).
C22_MfaEnabledHasSecret ==
    \A u \in DOMAIN users : users[u].mfa_enabled => users[u].mfa_secret # Null

\* C22 witness: mfa/verify has just enabled MFA on an account, which holds the
\* secret the code was verified against.
C22_Witness ==
    /\ last.op = "mfa_verify"
    /\ last.status = 200
    /\ ~last.pre[1].mfa_enabled
    /\ users[last.out.user].mfa_enabled
    /\ users[last.out.user].mfa_secret = Some(last.req.token.secret)

\* the first n bytes of a byte string
FirstBytes(bytes, n) == [i \in 1..(IF Len(bytes) < n THEN Len(bytes) ELSE n) |-> bytes[i]]

\* C23: for all secrets p and q, verify_password(q, hash_password(p)) is true
\* iff the first 72 bytes of q equal the first 72 bytes of p; so a secret
\* longer than 72 bytes verifies against its own hash, and p + extra verifies
\* against the hash of p when p has at least 72 bytes.
C23_TruncationConsistent ==
    /\ last.op = "hash_password" =>
          /\ verify_password(last.req.p, last.out.hash)
          /\ last.out.hash = hash_password(FirstBytes(last.req.p, BCRYPT_MAX_BYTES))
    /\ last.op = "verify_password" =>
          last.out.ok = ( FirstBytes(last.req.q, BCRYPT_MAX_BYTES)
                            = FirstBytes(last.req.p, BCRYPT_MAX_BYTES) )

\* C23 witness: a secret of at least 72 bytes was hashed, and a longer secret
\* that extends it with other bytes has just verified against the hash.
C23_Witness ==
    /\ last.op = "verify_password"
    /\ last.out.ok
    /\ Len(last.req.p) >= BCRYPT_MAX_BYTES
    /\ Len(last.req.q) > Len(last.req.p)
    /\ \E i \in DOMAIN last.req.q : i > BCRYPT_MAX_BYTES /\ last.req.q[i] # 65

\* C25 (as claimed): a logout changes the revoked flag only of rows owned by
\* the user it was authenticated as.
C25_LogoutOwnTokensOnly ==
    [][ last'.op = "logout" =>
          \A i \in DOMAIN refresh_tokens :
             refresh_tokens'[i].revoked # refresh_tokens[i].revoked =>
                refresh_tokens[i].user_id
                   = get_current_user(users, last'.req.bearer, now).user
      ]_vars

\* C26: the passage of time changes no account, so an expired lockout leaves
\* the counter where it was; and a wrong-password login on an account that may
\* log in again while its counter is still 5 or more locks it at once for
\* another 30 minutes.
C26_RelockAfterExpiry ==
    [][ /\ last'.op = "tick" => users' = users
        /\ ( /\ last'.op = "login"
             /\ Registered(users, last'.req.email)
             /\ LET before == users[AccountOf(users, last'.req.email)]
                IN  /\ can_login(before, now)
                    /\ before.security_type = "PASSWORD"
                    /\ before.password_hash # Null
                    /\ ~verify_password(last'.req.password, before.password_hash[1])
                    /\ before.failed_login_attempts >= LOCK_THRESHOLD )
           => LET u == AccountOf(users, last'.req.email)
              IN  /\ last'.status = 401
                  /\ users'[u].failed_login_attempts = users[u].failed_login_attempts + 1
                  /\ users'[u].locked_until = Some(now + LOCKOUT_MINUTES)
                  /\ is_locked(users'[u], now')
      ]_vars

\* C26 witness: an account whose lockout had expired, with five failures on
\* its counter, has just been locked again by one wrong password.
C26_Witness ==
    /\ last.op = "login"
    /\ last.status = 401
    /\ last.pre # Null
    /\ last.pre[1].failed_login_attempts = LOCK_THRESHOLD
    /\ last.pre[1].locked_until # Null
    /\ ~is_locked(last.pre[1], now)
    /\ users[AccountOf(users, last.req.email)].locked_until = Some(now + LOCKOUT_MINUTES)
    /\ users[AccountOf(users, last.req.email)].locked_until # last.pre[1].locked_until

\* C27: a login to an account whose authentication mode is not PASSWORD never
\* counts a failure or sets a lock, and succeeds with a new refresh-token row
\* for any submitted password provided the account may log in and, if MFA is
\* enabled, the code verifies.
C27_NonPasswordLogin ==
    [][ ( /\ last'.op = "login"
          /\ Registered(users, last'.req.email)
          /\ users[AccountOf(users, last'.req.email)].security_type # "PASSWORD" )
        => LET u      == AccountOf(users, last'.req.email)
               before == users[u]
           IN  /\ users'[u].failed_login_attempts <= before.failed_login_attempts
               /\ users'[u].locked_until = before.locked_until
               /\ ( /\ can_login(before, now)
                    /\ before.mfa_enabled =>
                          MfaCodeVerifies(before, last'.req.mfa_token, now) )
                  => /\ last'.status = 200
                     /\ Len(refresh_tokens') = Len(refresh_tokens) + 1
                     /\ refresh_tokens'[Len(refresh_tokens')].user_id = u
      ]_vars

\* C27 witness: an OAuth account without a password hash and with MFA enabled
\* has just logged in with a password and a valid code.
C27_Witness ==
    /\ last.op = "login"
    /\ last.status = 200
    /\ last.pre[1].security_type = "GOOGLE_OAUTH"
    /\ last.pre[1].password_hash = Null
    /\ last.pre[1].mfa_enabled
    /\ last.req.password = PW_B

\* C28 (as claimed): while MFA is enabled on an account its secret, the one a
\* successful mfa/verify confirmed, is not replaced: mfa/setup on an account
\* with MFA enabled does not change the secret login verifies codes against.
C28_ActiveSecretConfirmed ==
    [][ \A u \in DOMAIN users :
          users[u].mfa_enabled => users'[u].mfa_secret = users[u].mfa_secret
      ]_vars

\* C29: a refresh with the token of a valid row succeeds exactly when the
\* is_active flag of the subject is true, whatever the lock and the status of
\* the account are; a subject with is_active false is always refused.
C29_RefreshChecksIsActiveOnly ==
    [][ last'.op = "refresh" =>
          /\ \A i \in DOMAIN refresh_tokens :
                ( /\ refresh_tokens[i].token = last'.req.refresh_token
                  /\ is_valid(refresh_tokens[i], now) )
                => (last'.status = 200) = users[refresh_tokens[i].user_id].is_active
          /\ \A i \in DOMAIN refresh_tokens :
                ( /\ refresh_tokens[i].token = last'.req.refresh_token
                  /\ ~users[refresh_tokens[i].user_id].is_active )
                => last'.status = 401
      ]_vars

\* C29 witness: a locked account, which could not log in, has just been given
\* a new access token for its refresh token.
C29_Witness ==
    /\ last.op = "refresh"
    /\ last.status = 200
    /\ is_locked(users[last.out.access_token.sub], now)
    /\ ~can_login(users[last.out.access_token.sub], now)
    /\ users[last.out.access_token.sub].is_active

(* C24: two login attempts of one account that fail on the password at the
   same time lose an update: a failed attempt commits the counter its own
   SELECT read plus one as an absolute value, whatever the row holds by then
   (no row lock, no atomic increment), and locks only when that value
   reaches the threshold; so attempts that read the same n all write n+1. *)
PasswordRejected(ses) ==
    /\ ses.id # 0
    /\ can_login(ses.user[1], now)
    /\ ses.user[1].security_type = "PASSWORD"
    /\ ses.user[1].password_hash # Null
    /\ ~verify_password(ses.password, ses.user[1].password_hash[1])

C24_LostUpdate ==
    [][\A s \in DOMAIN sessions :
          (/\ sessions[s].pc = "selected"
           /\ sessions'[s].pc = "done"
           /\ PasswordRejected(sessions[s]))
          => LET id == sessions[s].id
                 n  == sessions[s].user[1].failed_login_attempts
             IN  /\ users'[id].failed_login_attempts = n + 1
                 /\ users'[id].locked_until =
                       IF n + 1 >= LOCK_THRESHOLD
                       THEN Some(now + LOCKOUT_MINUTES)
                       ELSE users[id].locked_until]_vars

\* five wrong-password attempts and nothing else have completed, two of them
\* read the same counter value, and the account is below the threshold and
\* not locked
C24_Witness ==
    LET failed == {s \in DOMAIN sessions :
                      /\ sessions[s].pc = "done"
                      /\ sessions[s].status = 401
                      /\ PasswordRejected(sessions[s])}
    IN  /\ Cardinality(failed) >= LOCK_THRESHOLD
        /\ PasswordChanges = {}
        /\ \A s \in DOMAIN sessions : sessions[s].status # 200
        /\ \E s \in failed, t \in failed :
              /\ s # t
              /\ sessions[s].user[1].failed_login_attempts
                   = sessions[t].user[1].failed_login_attempts
        /\ users[1].failed_login_attempts < LOCK_THRESHOLD
        /\ users[1].locked_until = Null

(* C30: once a password change has returned, no refresh token of the user
   that a login issued after verifying the old password is valid, however
   the login and the password change interleave. *)
C30_NoSessionOfOldPassword ==
    \A s \in DOMAIN sessions :
       LET ses == sessions[s]
       IN  (/\ ses.pc = "done"
            /\ ses.status = 200
            /\ users[ses.id].password_changed_at # Null
            /\ ses.user[1].password_hash # users[ses.id].password_hash
            /\ verify_password(ses.password, ses.user[1].password_hash[1]))
           => ~is_valid(refresh_tokens[ses.row], now)

====
